---- MODULE Spec2Model ----
(***************************************************************************)
(* Model of mjpeg_server.py: the latest-frame Stores, the watchdog         *)
(* ingestion handler, the age-based pruning sweep and the per-client       *)
(* MJPEG generator, as threads that interleave at the granularity of       *)
(* their shared accesses (the Store's fields under its lock, one           *)
(* filesystem call at a time).                                             *)
(***************************************************************************)
EXTENDS Integers, Sequences, FiniteSets, TLC

(***************************************************************************)
(* Bounds of the model.                                                    *)
(***************************************************************************)
\* filesystem changes the external producer makes in one behaviour
MaxWrites == 1
\* watch events delivered to one handler in one behaviour
MaxEvents == 2
\* modification times are multiples of TickS seconds, 0 .. MaxTick * TickS
TickS == 5
MaxTick == 3
\* streaming clients
NumSessions == 2
\* loop iterations a short-lived client stays connected for
ShortIter == 2
\* loop iterations a long-lived client stays connected past the first sweep
ExtraIter == 1

(***************************************************************************)
(* Program constants.                                                      *)
(***************************************************************************)
NumSources == 2
MAX_FRAME_AGE_S == 10
max_attempts == 5
prune_every_n == 20

Sources == 1..NumSources
Sessions == 1..NumSessions
MTimes == {k * TickS : k \in 0..MaxTick}

(***************************************************************************)
(* Paths.  A path is its directory (a sequence of parts), the stem of its  *)
(* last part and that part's suffix.                                       *)
(***************************************************************************)
FRAMES_DIR(s) == IF s = 1 THEN <<"tmp", "mjpeg_frames1">>
                          ELSE <<"tmp", "mjpeg_frames2">>

MkPath(d, n, x) == [dir |-> d, stem |-> n, suffix |-> x]

None == [dir |-> <<>>, stem |-> "", suffix |-> ""]

\* the entries a watched directory can hold in this model
FolderPaths(s) ==
    { MkPath(FRAMES_DIR(s), "a", ".jpg"),
      MkPath(FRAMES_DIR(s), "b", ".PNG"),
      MkPath(FRAMES_DIR(s), "e", ".jpeg"),
      MkPath(FRAMES_DIR(s), "f", ".JPG"),
      MkPath(FRAMES_DIR(s), "c", ".txt") }

FsPaths == UNION { FolderPaths(s) : s \in Sources }

\* a path outside every watched directory
OutsidePath == MkPath(<<"tmp">>, "o", ".jpeg")

Suffixes == {".jpg", ".JPG", ".jpeg", ".JPEG", ".png", ".PNG", ".txt", ""}

\* str.lower() on a suffix
Lower(x) ==
    CASE x = ".JPG"  -> ".jpg"
      [] x = ".JPEG" -> ".jpeg"
      [] x = ".PNG"  -> ".png"
      [] OTHER       -> x

\* a filter that lets every extension through
is_candidate_image_Any(path) == TRUE

is_candidate_image(path) ==
    LET suffix == Lower(path.suffix)
    IN  (suffix = ".jpg") \/ (suffix = ".jpeg") \/ (suffix = ".png")

IsPrefix(a, b) == Len(a) <= Len(b) /\ SubSeq(b, 1, Len(a)) = a

\* path.relative_to(folder) does not raise ValueError
relative_to_ok(path, folder) == IsPrefix(folder, path.dir)

(***************************************************************************)
(* File contents and the Normalizer.  Raw bytes are sequences of small     *)
(* numbers: a format magic, a colour mode, then the pixel data (and the    *)
(* alpha data of a mode that has it).                                      *)
(***************************************************************************)
MagicJpeg == 216
MagicPng == 80
ModeRGB == 0
ModeL == 1
ModeRGBA == 2

\* what a producer leaves in a file
RawEmpty == <<>>
RawJpegA == <<MagicJpeg, ModeRGB, 7>>
RawJpegL == <<MagicJpeg, ModeL, 3>>
RawPngB == <<MagicPng, ModeRGBA, 9, 0>>
RawTrunc == <<MagicPng, ModeRGBA>>
RawContents == {RawEmpty, RawJpegA, RawPngB, RawTrunc, RawJpegL}

\* Image.open + img.load(): succeeds on a complete image of a known format
Decodable(raw) ==
    /\ Len(raw) >= 3
    /\ raw[1] \in {MagicJpeg, MagicPng}
    /\ raw[2] \in {ModeRGB, ModeL, ModeRGBA}
    /\ (raw[2] = ModeRGBA => Len(raw) >= 4)

\* the RGB pixel data after the mode conversion of lines 68-74
ToRGB(raw) ==
    IF raw[2] = ModeRGBA
        THEN (IF raw[4] = 0 THEN 0 ELSE raw[3])   \* pasted on black through alpha
        ELSE raw[3]

\* img.save(format="JPEG"): the canonical bytes
EncodeJpeg(px) == <<255, MagicJpeg, px>>

NO_FRAME_JPEG == <<255, MagicJpeg, 0, 0>>

\* one decode attempt of _try_load_as_jpeg_bytes on the bytes read
\* (lines 60-78): the JPEG bytes, or JpegNone when the attempt raised
JpegNone == <<0>>

DecodeAttempt(raw) ==
    IF Decodable(raw) THEN EncodeJpeg(ToRGB(raw)) ELSE JpegNone

(***************************************************************************)
(* The filesystem.                                                         *)
(***************************************************************************)
NoFile == [kind |-> "none", mtime |-> 0, raw |-> <<>>, locked |-> FALSE]

RegularFile(m, r) == [kind |-> "file", mtime |-> m, raw |-> r, locked |-> FALSE]

FileStates ==
    {NoFile}
    \cup [kind : {"file", "dir"}, mtime : MTimes, raw : RawContents,
          locked : BOOLEAN]

(***************************************************************************)
(* Threads.                                                                *)
(***************************************************************************)
MainT == <<"main", 0>>
WatchT(s) == <<"watch", s>>
SessT(k) == <<"sess", k>>
NoThread == <<"none", 0>>

Watchers == { WatchT(s) : s \in Sources }
Clients == { SessT(k) : k \in Sessions }
Threads == {MainT} \cup Watchers \cup Clients

(***************************************************************************)
(* State.                                                                  *)
(***************************************************************************)
VARIABLES
    latest,     \* latest[s]: the LatestFrame of source s (lock, jpeg_bytes, seq, path)
    fs,         \* fs[p]: the file at path p
    folderOk,   \* folderOk[s]: the watched directory of s exists and can be listed
    maxAge,     \* MAX_FRAME_AGE_S as configured
    pc,         \* pc[t]: where thread t is
    ev,         \* ev[s]: the event the handler of s was last called with
    ld,         \* ld[t]: the frame of _try_load_as_jpeg_bytes and its caller
    pf,         \* pf[t]: the frame of prune_older_than_current
    sl,         \* sl[k]: the locals of the generator of client k
    out,        \* out[k]: the part client k was sent last
    boot,       \* the source _startup is bootstrapping
    nWrites,    \* filesystem changes made so far
    nEvents,    \* nEvents[s]: events delivered so far
    pubs,       \* pubs[s]: the calls of _update_latest on s, in order (history)
    sweeps,     \* sweeps[t]: the calls of prune_older_than_current by t (history)
    unlinked,   \* the files the sweeps deleted (history)
    fs0         \* the filesystem at the start (history)

vars == <<latest, fs, folderOk, maxAge, pc, ev, ld, pf, sl, out, boot,
          nWrites, nEvents, pubs, sweeps, unlinked, fs0>>

(***************************************************************************)
(* Frames and helpers.                                                     *)
(***************************************************************************)
Loaders == {MainT} \cup Watchers

NoEvent == [path |-> None, is_directory |-> FALSE]

LdIdle == [path |-> None, attempt |-> 0, jpeg |-> JpegNone, mtime |-> 0]

PfIdle == [src |-> 0, cur |-> None, threshold |-> 0, todo |-> {},
           victim |-> None, ret |-> "off"]

SlIdle == [src |-> 0, jpeg |-> <<>>, path |-> None, i |-> 0]

NoPart == [boundary |-> "", content_type |-> "", content_length |-> 0,
           payload |-> <<>>]

\* the file a path names (no file for a path outside the watched directories)
File(p) == IF p \in FsPaths THEN fs[p] ELSE NoFile

\* the source a thread works on
ThreadSrc(t) ==
    IF t = MainT THEN boot
    ELSE IF t[1] = "watch" THEN t[2]
    ELSE sl[t[2]].src

\* the events a watch of FRAMES_DIR(s) can deliver
EventPaths(s) ==
    { MkPath(FRAMES_DIR(s), "a", ".jpg"), MkPath(FRAMES_DIR(s), "b", ".PNG"),
      MkPath(FRAMES_DIR(s), "c", ".txt"), OutsidePath }

WatchEvents(s) ==
    { [path |-> p, is_directory |-> FALSE] : p \in EventPaths(s) }
    \cup { [path |-> MkPath(FRAMES_DIR(s), "d", ".jpg"), is_directory |-> TRUE] }

(***************************************************************************)
(* Initial state: the module is loaded (latest1 and latest2 are empty),    *)
(* the watched directories exist and _startup is about to bootstrap.       *)
(***************************************************************************)
EmptyLatest == [lock |-> NoThread, jpeg_bytes |-> <<>>, seq |-> 0, path |-> None]

InitCommon ==
    /\ latest = [s \in Sources |-> EmptyLatest]
    /\ folderOk = [s \in Sources |-> TRUE]
    /\ ev = [s \in Sources |-> NoEvent]
    /\ ld = [t \in Loaders |-> LdIdle]
    /\ pf = [t \in Threads |-> PfIdle]
    /\ sl = [k \in Sessions |-> SlIdle]
    /\ out = [k \in Sessions |-> NoPart]
    /\ boot = 1
    /\ nWrites = 0
    /\ nEvents = [s \in Sources |-> 0]
    /\ pubs = [s \in Sources |-> <<>>]
    /\ sweeps = [t \in Threads |-> <<>>]
    /\ unlinked = {}

\* what an earlier run of the producer left in the directory of source 1:
\* nothing; two frames inside the age window and a stale one; a frame being
\* written (still empty) beside older complete ones
PathA == MkPath(FRAMES_DIR(1), "a", ".jpg")
PathB == MkPath(FRAMES_DIR(1), "b", ".PNG")
PathE == MkPath(FRAMES_DIR(1), "e", ".jpeg")
PathF == MkPath(FRAMES_DIR(1), "f", ".JPG")
PathC == MkPath(FRAMES_DIR(1), "c", ".txt")

DirWith(fa, fb, fe) ==
    [p \in FsPaths |->
        IF p = PathA THEN fa
        ELSE IF p = PathB THEN fb
        ELSE IF p = PathE THEN fe ELSE NoFile]

Newest == MaxTick * TickS

PriorDirs ==
    { DirWith(NoFile, NoFile, NoFile),
      DirWith(RegularFile(Newest, RawJpegA), RegularFile(Newest - TickS, RawPngB),
              RegularFile(0, RawJpegL)),
      DirWith(RegularFile(Newest, RawEmpty), RegularFile(Newest - TickS, RawPngB),
              RegularFile(0, RawJpegL)) }

Init ==
    /\ InitCommon
    /\ fs \in PriorDirs
    /\ fs0 = fs
    /\ maxAge = MAX_FRAME_AGE_S
    /\ pc = [t \in Threads |-> IF t = MainT THEN "boot_scan" ELSE "off"]

(***************************************************************************)
(* The producer: an external process that writes files into a watched      *)
(* directory (a truncated file first, when it writes in place), and may    *)
(* remove the directory.                                                   *)
(***************************************************************************)
ProducerWrite(s, p, m, r) ==
    /\ nWrites < MaxWrites
    /\ folderOk[s]
    /\ p \in FolderPaths(s)
    /\ fs' = [fs EXCEPT ![p] = RegularFile(m, r)]
    /\ nWrites' = nWrites + 1
    /\ UNCHANGED <<latest, folderOk, maxAge, pc, ev, ld, pf, sl, out, boot,
                   nEvents, pubs, sweeps, unlinked, fs0>>

RemoveFolder(s) ==
    /\ nWrites < MaxWrites
    /\ folderOk[s]
    /\ folderOk' = [folderOk EXCEPT ![s] = FALSE]
    /\ fs' = [p \in FsPaths |-> IF p \in FolderPaths(s) THEN NoFile ELSE fs[p]]
    /\ nWrites' = nWrites + 1
    /\ UNCHANGED <<latest, maxAge, pc, ev, ld, pf, sl, out, boot,
                   nEvents, pubs, sweeps, unlinked, fs0>>

(***************************************************************************)
(* prune_older_than_current(folder, current_path, max_age_s), one          *)
(* filesystem call at a time.                                              *)
(***************************************************************************)
\* the call: the frame is set up and control enters the function
CallPrune(t, s, cur, ret, npub) ==
    /\ pf' = [pf EXCEPT ![t] = [src |-> s, cur |-> cur, threshold |-> 0,
                                 todo |-> {}, victim |-> None, ret |-> ret]]
    /\ pc' = [pc EXCEPT ![t] = "prune"]
    /\ sweeps' = [sweeps EXCEPT ![t] = Append(@, [src |-> s, cur |-> cur, npub |-> npub])]

\* return to the caller
PruneReturn(t) ==
    /\ pc' = [pc EXCEPT ![t] = pf[t].ret]
    /\ pf' = [pf EXCEPT ![t] = PfIdle]

\* the guard with < in place of <=
PruneDisabled_Strict(current_path, max_age_s) ==
    (current_path = None) \/ (max_age_s < 0)

\* line 127
PruneDisabled(current_path, max_age_s) ==
    (current_path = None) \/ (max_age_s <= 0)

\* line 137
Threshold(current_mtime, max_age_s) == current_mtime - max_age_s

\* the comparison with <= in place of <
IsStale_Inclusive(st_mtime, threshold) == st_mtime <= threshold

\* line 143
IsStale(st_mtime, threshold) == st_mtime < threshold

\* line 140
SkipEntry(p, f) == (f.kind # "file") \/ (~is_candidate_image(p))

\* lines 127-137: the guard, then current_path.stat()
PruneEnter(t) ==
    /\ pc[t] = "prune"
    /\ LET f == pf[t] IN
       IF PruneDisabled(f.cur, maxAge) \/ File(f.cur).kind = "none"
           THEN PruneReturn(t)
           ELSE /\ pf' = [pf EXCEPT ![t].threshold =
                              Threshold(File(f.cur).mtime, maxAge)]
                /\ pc' = [pc EXCEPT ![t] = "pr_iterdir"]
    /\ UNCHANGED <<latest, fs, folderOk, maxAge, ev, ld, sl, out, boot,
                   nWrites, nEvents, pubs, sweeps, unlinked, fs0>>

\* line 139: folder.iterdir(); it raises when the directory is gone, and
\* nothing in the function catches that
PruneIterdir(t) ==
    /\ pc[t] = "pr_iterdir"
    /\ LET s == pf[t].src IN
       IF folderOk[s]
           THEN /\ pf' = [pf EXCEPT ![t].todo =
                              {p \in FolderPaths(s) : fs[p].kind # "none"}]
                /\ pc' = [pc EXCEPT ![t] = "pr_loop"]
           ELSE /\ pf' = [pf EXCEPT ![t] = PfIdle]
                /\ pc' = [pc EXCEPT ![t] = "crashed"]
    /\ UNCHANGED <<latest, fs, folderOk, maxAge, ev, ld, sl, out, boot,
                   nWrites, nEvents, pubs, sweeps, unlinked, fs0>>

\* lines 139-143: the next entry, is_file(), the extension, stat()
PruneLoop(t) ==
    /\ pc[t] = "pr_loop"
    /\ IF pf[t].todo = {}
           THEN PruneReturn(t)
           ELSE \E p \in pf[t].todo :
                    IF (~SkipEntry(p, fs[p])) /\ IsStale(fs[p].mtime, pf[t].threshold)
                        THEN /\ pf' = [pf EXCEPT ![t].todo = @ \ {p},
                                                 ![t].victim = p]
                             /\ pc' = [pc EXCEPT ![t] = "pr_unlink"]
                        ELSE /\ pf' = [pf EXCEPT ![t].todo = @ \ {p}]
                             /\ pc' = pc
    /\ UNCHANGED <<latest, fs, folderOk, maxAge, ev, ld, sl, out, boot,
                   nWrites, nEvents, pubs, sweeps, unlinked, fs0>>

\* p.unlink() succeeds
CanUnlink(f) == (f.kind = "file") /\ (~f.locked)

\* lines 144-148: p.unlink(); a failure is swallowed
PruneUnlink(t) ==
    /\ pc[t] = "pr_unlink"
    /\ LET p == pf[t].victim IN
       IF CanUnlink(fs[p])
           THEN /\ fs' = [fs EXCEPT ![p] = NoFile]
                /\ unlinked' = unlinked \cup
                       {[path |-> p, by |-> t, cur |-> pf[t].cur,
                         mtime |-> fs[p].mtime,
                         published |-> (latest[pf[t].src].path = p)]}
           ELSE UNCHANGED <<fs, unlinked>>
    /\ pf' = [pf EXCEPT ![t].victim = None]
    /\ pc' = [pc EXCEPT ![t] = "pr_loop"]
    /\ UNCHANGED <<latest, folderOk, maxAge, ev, ld, sl, out, boot,
                   nWrites, nEvents, pubs, sweeps, fs0>>

(***************************************************************************)
(* _try_load_as_jpeg_bytes(path): one attempt per step.                    *)
(***************************************************************************)
\* where the caller goes with the result
AfterLoad(t, jpeg) ==
    IF jpeg # JpegNone THEN "upd_lock"
    ELSE IF t = MainT THEN "boot_prune" ELSE "idle"

\* a load without the except clause: a failed attempt ends the thread
LoadAttempt_Raises(t) ==
    /\ pc[t] = "load"
    /\ LET f == File(ld[t].path)
           jpeg == IF f.kind = "file" THEN DecodeAttempt(f.raw) ELSE JpegNone
       IN  IF jpeg # JpegNone
               THEN /\ ld' = [ld EXCEPT ![t].jpeg = jpeg, ![t].mtime = f.mtime]
                    /\ pc' = [pc EXCEPT ![t] = AfterLoad(t, jpeg)]
               ELSE /\ ld' = [ld EXCEPT ![t].attempt = @ + 1]
                    /\ pc' = [pc EXCEPT ![t] = "crashed"]
    /\ UNCHANGED <<latest, fs, folderOk, maxAge, ev, pf, sl, out, boot,
                   nWrites, nEvents, pubs, sweeps, unlinked, fs0>>

\* a loop that makes one attempt more
LoadAttempt_OneMore(t) ==
    /\ pc[t] = "load"
    /\ LET f == File(ld[t].path)
           jpeg == IF f.kind = "file" THEN DecodeAttempt(f.raw) ELSE JpegNone
       IN  IF jpeg # JpegNone
               THEN /\ ld' = [ld EXCEPT ![t].jpeg = jpeg, ![t].mtime = f.mtime]
                    /\ pc' = [pc EXCEPT ![t] = AfterLoad(t, jpeg)]
               ELSE IF ld[t].attempt + 1 <= max_attempts
                   THEN /\ ld' = [ld EXCEPT ![t].attempt = @ + 1]
                        /\ pc' = pc
                   ELSE /\ ld' = [ld EXCEPT ![t].attempt = @ + 1]
                        /\ pc' = [pc EXCEPT ![t] = AfterLoad(t, JpegNone)]
    /\ UNCHANGED <<latest, fs, folderOk, maxAge, ev, pf, sl, out, boot,
                   nWrites, nEvents, pubs, sweeps, unlinked, fs0>>

LoadAttempt(t) ==
    /\ pc[t] = "load"
    /\ LET f == File(ld[t].path)
           jpeg == IF f.kind = "file" THEN DecodeAttempt(f.raw) ELSE JpegNone
       IN  IF jpeg # JpegNone
               THEN /\ ld' = [ld EXCEPT ![t].jpeg = jpeg, ![t].mtime = f.mtime]
                    /\ pc' = [pc EXCEPT ![t] = AfterLoad(t, jpeg)]
               ELSE IF ld[t].attempt + 1 < max_attempts
                   THEN /\ ld' = [ld EXCEPT ![t].attempt = @ + 1]
                        /\ pc' = pc
                   ELSE /\ ld' = [ld EXCEPT ![t].attempt = @ + 1]
                        /\ pc' = [pc EXCEPT ![t] = AfterLoad(t, JpegNone)]
    /\ UNCHANGED <<latest, fs, folderOk, maxAge, ev, pf, sl, out, boot,
                   nWrites, nEvents, pubs, sweeps, unlinked, fs0>>

(***************************************************************************)
(* _update_latest(latest, jpeg, path): the lock, then one field at a time. *)
(***************************************************************************)
\* a lock that excludes nobody
CanAcquire_Unlocked(s) == TRUE

\* threading.Lock: acquire succeeds only on a free lock
CanAcquire(s) == latest[s].lock = NoThread

UpdAcquire(t) ==
    /\ pc[t] = "upd_lock"
    /\ CanAcquire(ThreadSrc(t))
    /\ latest' = [latest EXCEPT ![ThreadSrc(t)].lock = t]
    /\ pc' = [pc EXCEPT ![t] = "upd_bytes"]
    /\ UNCHANGED <<fs, folderOk, maxAge, ev, ld, pf, sl, out, boot,
                   nWrites, nEvents, pubs, sweeps, unlinked, fs0>>

\* a store that keeps the first frame it was given
UpdBytes_KeepFirst(t) ==
    /\ pc[t] = "upd_bytes"
    /\ latest' = [latest EXCEPT ![ThreadSrc(t)].jpeg_bytes =
                      IF @ = <<>> THEN ld[t].jpeg ELSE @]
    /\ pc' = [pc EXCEPT ![t] = "upd_seq"]
    /\ UNCHANGED <<fs, folderOk, maxAge, ev, ld, pf, sl, out, boot,
                   nWrites, nEvents, pubs, sweeps, unlinked, fs0>>

\* line 153
UpdBytes(t) ==
    /\ pc[t] = "upd_bytes"
    /\ latest' = [latest EXCEPT ![ThreadSrc(t)].jpeg_bytes = ld[t].jpeg]
    /\ pc' = [pc EXCEPT ![t] = "upd_seq"]
    /\ UNCHANGED <<fs, folderOk, maxAge, ev, ld, pf, sl, out, boot,
                   nWrites, nEvents, pubs, sweeps, unlinked, fs0>>

\* a counter that skips
NextSeq_Skip(seq) == seq + 2

\* line 154
NextSeq(seq) == seq + 1

UpdSeq(t) ==
    /\ pc[t] = "upd_seq"
    /\ latest' = [latest EXCEPT ![ThreadSrc(t)].seq = NextSeq(@)]
    /\ pc' = [pc EXCEPT ![t] = "upd_path"]
    /\ UNCHANGED <<fs, folderOk, maxAge, ev, ld, pf, sl, out, boot,
                   nWrites, nEvents, pubs, sweeps, unlinked, fs0>>

\* a publish that leaves the path as it was
UpdPath_Skip(t) ==
    /\ pc[t] = "upd_path"
    /\ pc' = [pc EXCEPT ![t] = "upd_unlock"]
    /\ UNCHANGED <<latest, fs, folderOk, maxAge, ev, ld, pf, sl, out, boot,
                   nWrites, nEvents, pubs, sweeps, unlinked, fs0>>

\* line 155
UpdPath(t) ==
    /\ pc[t] = "upd_path"
    /\ latest' = [latest EXCEPT ![ThreadSrc(t)].path = ld[t].path]
    /\ pc' = [pc EXCEPT ![t] = "upd_unlock"]
    /\ UNCHANGED <<fs, folderOk, maxAge, ev, ld, pf, sl, out, boot,
                   nWrites, nEvents, pubs, sweeps, unlinked, fs0>>

\* a caller that does not sweep after the publish
UpdRelease_NoPrune(t) ==
    /\ pc[t] = "upd_unlock"
    /\ LET s == ThreadSrc(t) IN
       /\ latest' = [latest EXCEPT ![s].lock = NoThread]
       /\ pubs' = [pubs EXCEPT ![s] = Append(@,
                       [jpeg |-> ld[t].jpeg, path |-> ld[t].path,
                        mtime |-> ld[t].mtime, by |-> t])]
    /\ pc' = [pc EXCEPT ![t] = IF t = MainT THEN "boot_next" ELSE "idle"]
    /\ UNCHANGED <<fs, folderOk, maxAge, ev, ld, pf, sl, out, boot,
                   nWrites, nEvents, sweeps, unlinked, fs0>>

\* the lock is released and _update_latest returns; both callers go on to
\* prune_older_than_current(folder, path, MAX_FRAME_AGE_S) (lines 193, 217)
UpdRelease(t) ==
    /\ pc[t] = "upd_unlock"
    /\ LET s == ThreadSrc(t) IN
       /\ latest' = [latest EXCEPT ![s].lock = NoThread]
       /\ pubs' = [pubs EXCEPT ![s] = Append(@,
                       [jpeg |-> ld[t].jpeg, path |-> ld[t].path,
                        mtime |-> ld[t].mtime, by |-> t])]
       /\ CallPrune(t, s, ld[t].path,
                    IF t = MainT THEN "boot_next" ELSE "idle",
                    Len(pubs[s]) + 1)
    /\ UNCHANGED <<fs, folderOk, maxAge, ev, ld, sl, out, boot,
                   nWrites, nEvents, unlinked, fs0>>

(***************************************************************************)
(* NewImageHandler: the three callbacks and _handle.                       *)
(***************************************************************************)
\* Observer.stop() has been called on the observer of source s (_shutdown
\* stops observer 1, then observer 2, then joins them in that order; boot
\* is the observer _shutdown is at)
StopRequested(s) ==
    \/ pc[MainT] = "stop" /\ s < boot
    \/ pc[MainT] \in {"join", "down"}

\* the observer thread dispatches the next event unless it was stopped
Deliver(s, e) ==
    /\ pc[WatchT(s)] = "idle"
    /\ ~StopRequested(s)
    /\ nEvents[s] < MaxEvents
    /\ ev' = [ev EXCEPT ![s] = e]
    /\ pc' = [pc EXCEPT ![WatchT(s)] = "on_event"]
    /\ nEvents' = [nEvents EXCEPT ![s] = @ + 1]
    /\ UNCHANGED <<latest, fs, folderOk, maxAge, ld, pf, sl, out, boot,
                   nWrites, pubs, sweeps, unlinked, fs0>>

\* the observer thread calls the callback with the event (src_path for a
\* creation or a modification, dest_path for a move)
on_created(s, e) == Deliver(s, e)

on_moved(s, e) == Deliver(s, e)

on_modified(s, e) == Deliver(s, e)

\* lines 168, 173, 178 and 183-188: what lets an event through to the load
Accepted(e, folder) ==
    /\ ~e.is_directory
    /\ is_candidate_image(e.path)
    /\ relative_to_ok(e.path, folder)

\* the callback's directory test and _handle's filters, up to the call of
\* _try_load_as_jpeg_bytes
Handle(s) ==
    /\ pc[WatchT(s)] = "on_event"
    /\ IF Accepted(ev[s], FRAMES_DIR(s))
           THEN /\ ld' = [ld EXCEPT ![WatchT(s)] =
                              [LdIdle EXCEPT !.path = ev[s].path]]
                /\ pc' = [pc EXCEPT ![WatchT(s)] = "load"]
           ELSE /\ ld' = ld
                /\ pc' = [pc EXCEPT ![WatchT(s)] = "idle"]
    /\ UNCHANGED <<latest, fs, folderOk, maxAge, ev, pf, sl, out, boot,
                   nWrites, nEvents, pubs, sweeps, unlinked, fs0>>

(***************************************************************************)
(* _startup: _bootstrap_folder on each source, then the watchers.          *)
(***************************************************************************)
\* line 209: the candidates of the scan
Candidates(s) ==
    { p \in FolderPaths(s) : fs[p].kind = "file" /\ is_candidate_image(p) }

\* lines 208-212: candidates[0] of the sort by st_mtime, newest first
NewestOf(cands) ==
    { p \in cands : \A q \in cands : fs[q].mtime <= fs[p].mtime }

BootScan ==
    /\ pc[MainT] = "boot_scan"
    /\ IF ~folderOk[boot]
           THEN /\ pc' = [pc EXCEPT ![MainT] = "boot_failed"]
                /\ ld' = ld
           ELSE IF Candidates(boot) = {}
               THEN /\ pc' = [pc EXCEPT ![MainT] = "boot_next"]
                    /\ ld' = ld
               ELSE \E p \in NewestOf(Candidates(boot)) :
                        /\ ld' = [ld EXCEPT ![MainT] = [LdIdle EXCEPT !.path = p]]
                        /\ pc' = [pc EXCEPT ![MainT] = "load"]
    /\ UNCHANGED <<latest, fs, folderOk, maxAge, ev, pf, sl, out, boot,
                   nWrites, nEvents, pubs, sweeps, unlinked, fs0>>

\* line 217 after a load that returned None
BootPrune ==
    /\ pc[MainT] = "boot_prune"
    /\ CallPrune(MainT, boot, ld[MainT].path, "boot_next", Len(pubs[boot]))
    /\ UNCHANGED <<latest, fs, folderOk, maxAge, ev, ld, sl, out, boot,
                   nWrites, nEvents, pubs, unlinked, fs0>>

\* lines 241-242: the next folder, or on to the watchers
BootNext ==
    /\ pc[MainT] = "boot_next"
    /\ IF boot < NumSources
           THEN /\ boot' = boot + 1
                /\ pc' = [pc EXCEPT ![MainT] = "boot_scan"]
           ELSE /\ boot' = 1
                /\ pc' = [pc EXCEPT ![MainT] = "start"]
    /\ ld' = [ld EXCEPT ![MainT] = LdIdle]
    /\ UNCHANGED <<latest, fs, folderOk, maxAge, ev, pf, sl, out,
                   nWrites, nEvents, pubs, sweeps, unlinked, fs0>>

\* lines 246-247 and _start_watcher: the observer thread of a source starts
StartWatcher ==
    /\ pc[MainT] = "start"
    /\ IF boot < NumSources
           THEN /\ boot' = boot + 1
                /\ pc' = [pc EXCEPT ![WatchT(boot)] = "idle"]
           ELSE /\ boot' = boot
                /\ pc' = [pc EXCEPT ![WatchT(boot)] = "idle",
                                    ![MainT] = "serving"]
    /\ UNCHANGED <<latest, fs, folderOk, maxAge, ev, ld, pf, sl, out,
                   nWrites, nEvents, pubs, sweeps, unlinked, fs0>>

(***************************************************************************)
(* _shutdown: stop both observers, then join both.                         *)
(***************************************************************************)
\* the server calls _shutdown
ShutdownCall ==
    /\ pc[MainT] = "serving"
    /\ boot' = 1
    /\ pc' = [pc EXCEPT ![MainT] = "stop"]
    /\ UNCHANGED <<latest, fs, folderOk, maxAge, ev, ld, pf, sl, out,
                   nWrites, nEvents, pubs, sweeps, unlinked, fs0>>

\* lines 255-256: obs1.stop(), obs2.stop()
ObsStop ==
    /\ pc[MainT] = "stop"
    /\ IF boot < NumSources
           THEN /\ boot' = boot + 1
                /\ pc' = pc
           ELSE /\ boot' = 1
                /\ pc' = [pc EXCEPT ![MainT] = "join"]
    /\ UNCHANGED <<latest, fs, folderOk, maxAge, ev, ld, pf, sl, out,
                   nWrites, nEvents, pubs, sweeps, unlinked, fs0>>

\* a stopped observer thread leaves its loop once the handler it was
\* running, if any, has returned
ObserverExit(s) ==
    /\ pc[WatchT(s)] = "idle"
    /\ StopRequested(s)
    /\ pc' = [pc EXCEPT ![WatchT(s)] = "stopped"]
    /\ UNCHANGED <<latest, fs, folderOk, maxAge, ev, ld, pf, sl, out, boot,
                   nWrites, nEvents, pubs, sweeps, unlinked, fs0>>

\* a join that does not wait
JoinDone_NoWait(s) == TRUE

\* Thread.join() returns once the thread has ended
JoinDone(s) == pc[WatchT(s)] \in {"stopped", "crashed"}

\* lines 258-259: obs1.join(), obs2.join()
ObsJoin ==
    /\ pc[MainT] = "join"
    /\ JoinDone(boot)
    /\ IF boot < NumSources
           THEN /\ boot' = boot + 1
                /\ pc' = pc
           ELSE /\ boot' = boot
                /\ pc' = [pc EXCEPT ![MainT] = "down"]
    /\ UNCHANGED <<latest, fs, folderOk, maxAge, ev, ld, pf, sl, out,
                   nWrites, nEvents, pubs, sweeps, unlinked, fs0>>

(***************************************************************************)
(* _mjpeg_generator(target_fps, folder, latest): one client's loop.        *)
(***************************************************************************)
\* stream1 / stream2: a client connects once the application serves
Connect(k, s) ==
    /\ pc[SessT(k)] = "off"
    /\ pc[MainT] = "serving"
    /\ sl' = [sl EXCEPT ![k] = [SlIdle EXCEPT !.src = s]]
    /\ pc' = [pc EXCEPT ![SessT(k)] = "snap_lock"]
    /\ UNCHANGED <<latest, fs, folderOk, maxAge, ev, ld, pf, out, boot,
                   nWrites, nEvents, pubs, sweeps, unlinked, fs0>>

\* line 275
SnapAcquire(k) ==
    /\ pc[SessT(k)] = "snap_lock"
    /\ CanAcquire(sl[k].src)
    /\ latest' = [latest EXCEPT ![sl[k].src].lock = SessT(k)]
    /\ pc' = [pc EXCEPT ![SessT(k)] = "snap_bytes"]
    /\ UNCHANGED <<fs, folderOk, maxAge, ev, ld, pf, sl, out, boot,
                   nWrites, nEvents, pubs, sweeps, unlinked, fs0>>

\* a generator that reads the bytes once, before its loop
SnapBytes_Once(k) ==
    /\ pc[SessT(k)] = "snap_bytes"
    /\ sl' = [sl EXCEPT ![k].jpeg = IF sl[k].i = 0
                                        THEN latest[sl[k].src].jpeg_bytes
                                        ELSE @]
    /\ pc' = [pc EXCEPT ![SessT(k)] = "snap_path"]
    /\ UNCHANGED <<latest, fs, folderOk, maxAge, ev, ld, pf, out, boot,
                   nWrites, nEvents, pubs, sweeps, unlinked, fs0>>

\* line 276
SnapBytes(k) ==
    /\ pc[SessT(k)] = "snap_bytes"
    /\ sl' = [sl EXCEPT ![k].jpeg = latest[sl[k].src].jpeg_bytes]
    /\ pc' = [pc EXCEPT ![SessT(k)] = "snap_path"]
    /\ UNCHANGED <<latest, fs, folderOk, maxAge, ev, ld, pf, out, boot,
                   nWrites, nEvents, pubs, sweeps, unlinked, fs0>>

\* line 277
SnapPath(k) ==
    /\ pc[SessT(k)] = "snap_path"
    /\ sl' = [sl EXCEPT ![k].path = latest[sl[k].src].path]
    /\ pc' = [pc EXCEPT ![SessT(k)] = "snap_unlock"]
    /\ UNCHANGED <<latest, fs, folderOk, maxAge, ev, ld, pf, out, boot,
                   nWrites, nEvents, pubs, sweeps, unlinked, fs0>>

\* the payload without the placeholder
Frame_NoPlaceholder(jpeg) == jpeg

\* line 279
Frame(jpeg) == IF jpeg # <<>> THEN jpeg ELSE NO_FRAME_JPEG

\* lines 281-287
Part(frame) ==
    [boundary |-> "--frame", content_type |-> "image/jpeg",
     content_length |-> Len(frame), payload |-> frame]

\* a generator that builds and yields the part inside the with block
SnapRelease_Inside(k) ==
    /\ pc[SessT(k)] = "snap_unlock"
    /\ out' = [out EXCEPT ![k] = Part(Frame(sl[k].jpeg))]
    /\ pc' = [pc EXCEPT ![SessT(k)] = "yielded"]
    /\ UNCHANGED <<latest, fs, folderOk, maxAge, ev, ld, pf, sl, boot,
                   nWrites, nEvents, pubs, sweeps, unlinked, fs0>>

\* the lock is released, the part is built and yielded (lines 279-288)
SnapRelease(k) ==
    /\ pc[SessT(k)] = "snap_unlock"
    /\ latest' = [latest EXCEPT ![sl[k].src].lock = NoThread]
    /\ out' = [out EXCEPT ![k] = Part(Frame(sl[k].jpeg))]
    /\ pc' = [pc EXCEPT ![SessT(k)] = "yielded"]
    /\ UNCHANGED <<fs, folderOk, maxAge, ev, ld, pf, sl, boot,
                   nWrites, nEvents, pubs, sweeps, unlinked, fs0>>

\* a sweep due on the 20th iteration only
PruneDue_Once(i) == i = prune_every_n

\* line 291
PruneDue(i) == (i % prune_every_n) = 0

\* the generator is resumed: lines 290-292.  The client stays connected for
\* at most cap iterations.
Resume(k, cap) ==
    /\ pc[SessT(k)] = "yielded"
    /\ sl[k].i < cap
    /\ sl' = [sl EXCEPT ![k].i = @ + 1]
    /\ IF PruneDue(sl[k].i + 1)
           THEN CallPrune(SessT(k), sl[k].src, sl[k].path, "sleep",
                          Len(pubs[sl[k].src]))
           ELSE /\ pc' = [pc EXCEPT ![SessT(k)] = "sleep"]
                /\ UNCHANGED <<pf, sweeps>>
    /\ UNCHANGED <<latest, fs, folderOk, maxAge, ev, ld, out, boot,
                   nWrites, nEvents, pubs, unlinked, fs0>>

\* line 294
Sleep(k) ==
    /\ pc[SessT(k)] = "sleep"
    /\ pc' = [pc EXCEPT ![SessT(k)] = "snap_lock"]
    /\ UNCHANGED <<latest, fs, folderOk, maxAge, ev, ld, pf, sl, out, boot,
                   nWrites, nEvents, pubs, sweeps, unlinked, fs0>>

\* the client goes away: the generator is closed where it yielded
Disconnect(k) ==
    /\ pc[SessT(k)] = "yielded"
    /\ pc' = [pc EXCEPT ![SessT(k)] = "closed"]
    /\ UNCHANGED <<latest, fs, folderOk, maxAge, ev, ld, pf, sl, out, boot,
                   nWrites, nEvents, pubs, sweeps, unlinked, fs0>>

(***************************************************************************)
(* Specifications.                                                         *)
(***************************************************************************)
\* the source whose directory the producer writes to and whose stream the
\* clients ask for
Live == {1}

\* the files the producer writes
ProducerPaths(s) ==
    { MkPath(FRAMES_DIR(s), "a", ".jpg"), MkPath(FRAMES_DIR(s), "b", ".PNG") }

ProducerRaws == {RawEmpty, RawJpegA, RawPngB}

\* the modification times of the files the producer writes: older than
\* every file of the directory, or as new as the newest
ProducerMTimes == {0, Newest}

Producer(mtimes, raws) ==
    \/ \E s \in Live : \E p \in ProducerPaths(s), m \in mtimes, r \in raws :
           ProducerWrite(s, p, m, r)
    \/ \E s \in Live : RemoveFolder(s)

Startup == BootScan \/ BootPrune \/ BootNext \/ StartWatcher

Watch ==
    \/ \E s \in Live : \E e \in WatchEvents(s) :
           on_created(s, e) \/ on_moved(s, e) \/ on_modified(s, e)
    \/ \E s \in Sources : Handle(s)

Ingest ==
    \E t \in Loaders :
        LoadAttempt(t) \/ UpdAcquire(t) \/ UpdBytes(t) \/ UpdSeq(t)
        \/ UpdPath(t) \/ UpdRelease(t)

Prune ==
    \E t \in Threads :
        PruneEnter(t) \/ PruneIterdir(t) \/ PruneLoop(t) \/ PruneUnlink(t)

Stream(clients, cap) ==
    \/ \E k \in clients, s \in Live : Connect(k, s)
    \/ \E k \in clients :
        SnapAcquire(k) \/ SnapBytes(k) \/ SnapPath(k) \/ SnapRelease(k)
        \/ Resume(k, cap) \/ Sleep(k) \/ Disconnect(k)

\* the ingestion: _startup, the producer and the watch handler
Next == Producer(ProducerMTimes, ProducerRaws) \/ Startup \/ Watch \/ Ingest \/ Prune

Spec == Init /\ [][Next]_vars

\* the ingestion up to and through _shutdown
Shutdown ==
    ShutdownCall \/ ObsStop \/ ObsJoin \/ \E s \in Sources : ObserverExit(s)

NextDown == Next \/ Shutdown

SpecDown == Init /\ [][NextDown]_vars

\* the same under fair scheduling of the observer threads: a handler that
\* has been called runs to its return
FairWatch ==
    \A s \in Sources :
        WF_vars(Handle(s) \/ LoadAttempt(WatchT(s)) \/ UpdAcquire(WatchT(s))
                \/ UpdBytes(WatchT(s)) \/ UpdSeq(WatchT(s))
                \/ UpdPath(WatchT(s)) \/ UpdRelease(WatchT(s)))

SpecWatch == Init /\ [][Next]_vars /\ FairWatch

\* short-lived clients beside the ingestion of what the directory holds
NextShare ==
    \/ Startup \/ Watch \/ Ingest \/ Prune
    \/ Stream(Sessions, ShortIter)

SpecShare == Init /\ [][NextShare]_vars

\* the same under fair scheduling: a thread that can take its next step
\* inside _update_latest or inside the snapshot does take it (a client may
\* still go away, and the observer may deliver nothing more)
FairLock ==
    /\ \A t \in Loaders :
           WF_vars(UpdAcquire(t) \/ UpdBytes(t) \/ UpdSeq(t) \/ UpdPath(t)
                   \/ UpdRelease(t))
    /\ \A k \in Sessions :
           WF_vars(SnapAcquire(k) \/ SnapBytes(k) \/ SnapPath(k)
                   \/ SnapRelease(k))

SpecFair == Init /\ [][NextShare]_vars /\ FairLock

\* the same with frames of a prior run in both directories, so that
\* _startup publishes to both Stores
BothDirs ==
    [p \in FsPaths |->
        IF p = PathA THEN RegularFile(Newest, RawJpegA)
        ELSE IF p = PathB THEN RegularFile(Newest - TickS, RawPngB)
        ELSE IF p = MkPath(FRAMES_DIR(2), "a", ".jpg")
            THEN RegularFile(Newest, RawJpegL)
        ELSE NoFile]

InitLocks ==
    /\ InitCommon
    /\ fs \in PriorDirs \cup {BothDirs}
    /\ fs0 = fs
    /\ maxAge = MAX_FRAME_AGE_S
    /\ pc = [t \in Threads |-> IF t = MainT THEN "boot_scan" ELSE "off"]

SpecLocks == InitLocks /\ [][NextShare]_vars

\* one long-lived client beside the ingestion, under either configuration
\* of the age window
LongIter == prune_every_n + ExtraIter

InitStream ==
    /\ InitCommon
    /\ fs \in PriorDirs
    /\ fs0 = fs
    /\ maxAge \in {0 - MAX_FRAME_AGE_S, 0, MAX_FRAME_AGE_S}
    /\ pc = [t \in Threads |-> IF t = MainT THEN "boot_scan" ELSE "off"]

NextStream ==
    \/ Startup \/ Watch \/ Ingest \/ Prune
    \/ \E s \in Live : RemoveFolder(s)
    \/ Stream({1}, LongIter)

SpecStream == InitStream /\ [][NextStream]_vars

\* one client that stays connected past its second sweep, beside the
\* ingestion of what the directory holds
TwoSweeps == 2 * prune_every_n + ExtraIter

NextLong ==
    \/ Startup \/ Watch \/ Ingest \/ Prune
    \/ Stream({1}, TwoSweeps)

SpecLong == Init /\ [][NextLong]_vars

\* one long-lived client beside the ingestion and the producer
NextStale == Next \/ Stream({1}, LongIter)

SpecStale == Init /\ [][NextStale]_vars

\* prune_older_than_current alone: one call on a directory, a current path
\* and an age window drawn from small sets, with nothing else running
StatesOf(kinds, locks) ==
    {NoFile} \cup [kind : kinds, mtime : MTimes, raw : {RawJpegA}, locked : locks]

PruneDirs ==
    { [p \in FsPaths |->
          IF p = PathA THEN fa
          ELSE IF p = PathB THEN fb
          ELSE IF p = PathE THEN fe
          ELSE IF p = PathF THEN ff
          ELSE IF p = PathC THEN fc ELSE NoFile] :
      fa \in StatesOf({"file"}, {FALSE}),
      fb \in StatesOf({"file"}, BOOLEAN),
      fe \in StatesOf({"file", "dir"}, {FALSE}),
      ff \in StatesOf({"file"}, {FALSE}),
      fc \in {NoFile, RegularFile(0, RawJpegA)} }

InitPrune ==
    /\ InitCommon
    /\ fs \in PruneDirs
    /\ fs0 = fs
    /\ maxAge \in {0 - MAX_FRAME_AGE_S, 0, MAX_FRAME_AGE_S}
    /\ pc = [t \in Threads |-> IF t = MainT THEN "call" ELSE "off"]

\* the call
PruneCall(cur) ==
    /\ pc[MainT] = "call"
    /\ CallPrune(MainT, 1, cur, "done", 0)
    /\ UNCHANGED <<latest, fs, folderOk, maxAge, ev, ld, sl, out, boot,
                   nWrites, nEvents, pubs, unlinked, fs0>>

NextPrune ==
    \/ \E cur \in {None, PathA, PathB, PathE, PathF} : PruneCall(cur)
    \/ Prune

SpecPrune == InitPrune /\ [][NextPrune]_vars

(***************************************************************************)
(* Properties.                                                             *)
(***************************************************************************)
Last(q) == q[Len(q)]

Pair(jpeg, path) == [jpeg |-> jpeg, path |-> path]

EmptyPair == Pair(<<>>, None)

\* the (jpeg, path) pairs the publishes of a source wrote, and the empty one
PublishedPairs(s) ==
    { Pair(pubs[s][i].jpeg, pubs[s][i].path) : i \in 1..Len(pubs[s]) }
    \cup {EmptyPair}

\* the pair of the publish completed last
LastPublished(s) ==
    IF pubs[s] = <<>> THEN EmptyPair
    ELSE Pair(Last(pubs[s]).jpeg, Last(pubs[s]).path)

\* what client k holds as its snapshot
Held(k) == Pair(sl[k].jpeg, sl[k].path)

UpdPcs == {"upd_lock", "upd_bytes", "upd_seq", "upd_path", "upd_unlock"}

PrunePcs == {"prune", "pr_iterdir", "pr_loop", "pr_unlink"}

\* C1: no torn read.  Whenever a client is not between its two reads, the
\* (jpeg_bytes, path) pair it holds is the pair one single publish wrote,
\* or the initial empty pair: never the bytes of one publish with the path
\* of another.
C1_NoTornRead ==
    \A k \in Sessions :
        pc[SessT(k)] \notin {"off", "snap_path"} =>
            Held(k) \in PublishedPairs(sl[k].src)

\* a client has read a whole pair under the lock while the handler waits
\* for that lock with a different frame
C1_Witness ==
    \E k \in Sessions :
        /\ pc[SessT(k)] = "snap_unlock"
        /\ sl[k].jpeg # <<>>
        /\ pc[WatchT(1)] = "upd_lock"
        /\ ld[WatchT(1)].path # sl[k].path
        /\ ld[WatchT(1)].jpeg # sl[k].jpeg

\* a publish of source s has incremented seq and not yet returned
InPublish(s) ==
    \E t \in Loaders : pc[t] \in {"upd_path", "upd_unlock"} /\ ThreadSrc(t) = s

\* C2: seq never decreases; it grows by exactly 1 in each publish, at the
\* increment of _update_latest after a successful load, and no other step
\* changes it; so seq is the number of publishes completed on the Store
\* (plus the one in progress past its increment).
C2_SeqCountsPublishes ==
    /\ [](\A s \in Sources :
            latest[s].seq = Len(pubs[s]) + (IF InPublish(s) THEN 1 ELSE 0))
    /\ [][\A s \in Sources :
            \/ latest'[s].seq = latest[s].seq
            \/ /\ latest'[s].seq = latest[s].seq + 1
               /\ \E t \in Loaders :
                      /\ pc[t] = "upd_seq" /\ pc'[t] = "upd_path"
                      /\ ThreadSrc(t) = s
                      /\ ld[t].jpeg # JpegNone]_vars

\* two publishes are done, an event has failed or been filtered since, and
\* a client has taken a snapshot
C2_Witness ==
    /\ latest[1].seq = 2
    /\ Len(pubs[1]) = 2
    /\ pc[WatchT(1)] = "idle"
    /\ nEvents[1] > Len(SelectSeq(pubs[1], LAMBDA r : r.by = WatchT(1)))
    /\ \E k \in Sessions : pc[SessT(k)] = "yielded"

\* C3: last write wins.  The snapshot a client has under the lock is the
\* pair of the publish completed last (the empty pair before any), and seq
\* is the number of publishes: after publishing A then B, B's bytes, B's
\* path and a seq 2 greater.
C3_LastWriteWins ==
    \A k \in Sessions :
        pc[SessT(k)] = "snap_unlock" =>
            /\ Held(k) = LastPublished(sl[k].src)
            /\ latest[sl[k].src].seq = Len(pubs[sl[k].src])

\* a client snapshots after two publishes of different frames
C3_Witness ==
    \E k \in Sessions :
        /\ pc[SessT(k)] = "snap_unlock"
        /\ Len(pubs[1]) = 2
        /\ pubs[1][1].path # pubs[1][2].path
        /\ pubs[1][1].jpeg # pubs[1][2].jpeg
        /\ Held(k) = Pair(pubs[1][2].jpeg, pubs[1][2].path)
        /\ latest[1].seq = 2

\* C10: the part a client was sent carries the length of its own payload,
\* never zero; the payload is the placeholder when the snapshot was empty
\* and the snapshot's bytes otherwise.
C10_ContentLength ==
    \A k \in Sessions :
        out[k] # NoPart =>
            /\ out[k].content_length = Len(out[k].payload)
            /\ out[k].content_length > 0
            /\ pc[SessT(k)] \notin {"snap_path", "snap_unlock"} =>
                   /\ sl[k].jpeg = <<>> =>
                          /\ out[k].payload = NO_FRAME_JPEG
                          /\ out[k].content_length = Len(NO_FRAME_JPEG)
                   /\ sl[k].jpeg # <<>> => out[k].payload = sl[k].jpeg

\* one client was sent the placeholder and another a published frame
C10_Witness ==
    \E k, j \in Sessions :
        /\ pc[SessT(k)] = "yielded" /\ pc[SessT(j)] = "yielded"
        /\ sl[k].jpeg = <<>> /\ out[k].payload = NO_FRAME_JPEG
        /\ sl[j].jpeg # <<>> /\ out[j].payload = latest[1].jpeg_bytes

\* the frame a Store holds
Stored(s) == Pair(latest[s].jpeg_bytes, latest[s].path)

\* C4: the frame a Store holds comes from the file with the greatest
\* modification time among the files ingested so far, so an event for a
\* file older than the published one does not replace the newer frame.
C4_HoldsNewestByMtime ==
    \A s \in Sources :
        (latest[s].lock = NoThread /\ pubs[s] # <<>>) =>
            \E i \in 1..Len(pubs[s]) :
                /\ Stored(s) = Pair(pubs[s][i].jpeg, pubs[s][i].path)
                /\ \A j \in 1..Len(pubs[s]) : pubs[s][j].mtime <= pubs[s][i].mtime

\* the extensions of a candidate, in the cases the model writes them in
CandidateSuffixes == {".jpg", ".JPG", ".jpeg", ".JPEG", ".png", ".PNG"}

\* an event the handler is to discard
Rejected(e, s) ==
    \/ e.is_directory
    \/ e.path.suffix \notin CandidateSuffixes
    \/ e.path.dir # FRAMES_DIR(s)

Fields(l) == <<l.jpeg_bytes, l.seq, l.path>>

\* C5: a step in which the handler discards an event (a directory, a
\* foreign extension, a path outside the watched directory) or gives up on
\* a file that failed normalization returns to the observer and changes
\* neither the Store nor the filesystem and calls no sweep; and the fields
\* of a Store change only inside a publish of a successfully normalized
\* candidate of its own directory.
C5_StoreChangesOnlyOnSuccess ==
    [][\A s \in Sources :
         /\ (pc[WatchT(s)] = "on_event" /\ pc'[WatchT(s)] # "on_event"
                /\ Rejected(ev[s], s)) =>
               /\ pc'[WatchT(s)] = "idle"
               /\ latest' = latest /\ pubs' = pubs
               /\ fs' = fs /\ sweeps' = sweeps /\ unlinked' = unlinked
         /\ (pc[WatchT(s)] = "load" /\ pc'[WatchT(s)] = "idle") =>
               /\ ld'[WatchT(s)].attempt = max_attempts
               /\ latest' = latest /\ pubs' = pubs
               /\ fs' = fs /\ sweeps' = sweeps /\ unlinked' = unlinked
         /\ (Fields(latest'[s]) # Fields(latest[s])) =>
               \E t \in Loaders :
                   /\ pc[t] \in {"upd_bytes", "upd_seq", "upd_path"}
                   /\ ThreadSrc(t) = s
                   /\ ld[t].jpeg # JpegNone
                   /\ ~Rejected([path |-> ld[t].path, is_directory |-> FALSE], s)
      ]_vars

\* with a frame published, the handler has given up on a file that failed
\* normalization and then discarded an event
C5_Witness ==
    /\ pc[WatchT(1)] = "idle"
    /\ latest[1].seq = 1
    /\ ld[WatchT(1)].attempt = max_attempts
    /\ ev[1] # NoEvent /\ Rejected(ev[1], 1)
    /\ nEvents[1] = 2

\* the publishes thread t made on source s
PubCount(s, t) == Len(SelectSeq(pubs[s], LAMBDA r : r.by = t))

\* C6: the handler publishes first and sweeps afterwards: each sweep of a
\* handler is called with the path of a publish that handler has completed,
\* one sweep for each of its publishes and in their order, and while the
\* sweep runs the Store already holds that path.  A publish of the
\* bootstrap is followed by its sweep in the same way.
C6_PublishThenSweep ==
    /\ \A s \in Sources :
        LET w == WatchT(s) IN
        /\ Len(sweeps[w]) = PubCount(s, w)
        /\ \A j \in 1..Len(sweeps[w]) :
               LET n == sweeps[w][j].npub IN
               /\ n \in 1..Len(pubs[s])
               /\ pubs[s][n].by = w
               /\ pubs[s][n].path = sweeps[w][j].cur
               /\ j > 1 => sweeps[w][j - 1].npub < n
        /\ pc[w] \in PrunePcs =>
               /\ latest[s].lock # w
               /\ pf[w].cur = Last(sweeps[w]).cur
               /\ Stored(s) = Pair(pubs[s][Last(sweeps[w]).npub].jpeg, pf[w].cur)
    /\ \A s \in Sources : \A i \in 1..Len(pubs[s]) :
           pubs[s][i].by = MainT =>
               \E j \in 1..Len(sweeps[MainT]) :
                   sweeps[MainT][j] = [src |-> s, cur |-> pubs[s][i].path, npub |-> i]

\* the handler has published two different files and swept after each
C6_Witness ==
    /\ pc[WatchT(1)] = "idle"
    /\ Len(sweeps[WatchT(1)]) = 2
    /\ sweeps[WatchT(1)][1].cur # sweeps[WatchT(1)][2].cur
    /\ \E u \in unlinked : u.by = WatchT(1)

\* the call SpecPrune makes
Called == sweeps[MainT][1].cur

\* the files a sweep of the directory as it was is to delete
Eligible(p, cur) ==
    /\ fs0[p].kind = "file"
    /\ p.suffix \in CandidateSuffixes
    /\ fs0[p].mtime < fs0[cur].mtime - maxAge

\* the case C7 is about: the current file can be stat'd, the window is
\* positive and no file the sweep is to delete resists deletion
C7_Case ==
    /\ sweeps[MainT] # <<>>
    /\ Called # None
    /\ fs0[Called].kind # "none"
    /\ maxAge > 0
    /\ \A p \in FsPaths : Eligible(p, Called) => ~fs0[p].locked

\* C7: with nothing else touching the directory, a sweep deletes the
\* regular candidate files strictly older than mtime(current) - maxAge and
\* nothing else: a file at or after the threshold, a file of another
\* extension, a directory and the current file stay as they were.
C7_DeletesExactlyTheStale ==
    C7_Case =>
        /\ \A p \in FsPaths :
               fs[p] # fs0[p] => (Eligible(p, Called) /\ fs[p] = NoFile)
        /\ pc[MainT] = "done" =>
               \A p \in FsPaths : Eligible(p, Called) => fs[p] = NoFile
        /\ fs[Called] = fs0[Called]

\* the example: current at t, files at t-15, t-10 and t-5, a window of 10:
\* only the file at t-15 is gone
C7_Witness ==
    /\ pc[MainT] = "done"
    /\ C7_Case
    /\ Called = PathA /\ maxAge = MAX_FRAME_AGE_S
    /\ fs0[PathA].mtime = Newest
    /\ fs0[PathB] = RegularFile(Newest - 15, RawJpegA)
    /\ fs0[PathE] = RegularFile(Newest - 10, RawJpegA)
    /\ fs0[PathF] = RegularFile(Newest - 5, RawJpegA)
    /\ fs0[PathC] = RegularFile(0, RawJpegA)
    /\ fs[PathB] = NoFile
    /\ \A p \in FsPaths \ {PathB} : fs[p] = fs0[p]

\* C8: a call of prune_older_than_current whose current path is absent,
\* whose age window is not positive or whose current file cannot be stat'd
\* returns at once and changes nothing; so every file a sweep deleted was
\* deleted under a positive window and a current path, and a client
\* deletes only once its Store has been published to.
C8_NoOpSweep ==
    /\ [][\A t \in Threads :
            (/\ pc[t] = "prune" /\ pc'[t] # "prune"
             /\ \/ pf[t].cur = None
                \/ maxAge <= 0
                \/ File(pf[t].cur).kind = "none") =>
                /\ pc'[t] = pf[t].ret
                /\ fs' = fs /\ folderOk' = folderOk /\ unlinked' = unlinked
                /\ latest' = latest /\ pubs' = pubs]_vars
    /\ [](\A u \in unlinked :
            /\ maxAge > 0
            /\ u.cur # None
            /\ u.by \in Clients => pubs[1] # <<>>)

\* a client has swept, on its 20th iteration, with the absent path of a
\* Store never published to, beside candidate files that are still there
C8_Witness ==
    \E k \in Sessions :
        /\ pc[SessT(k)] = "sleep"
        /\ sl[k].i = prune_every_n
        /\ sl[k].path = None
        /\ Len(sweeps[SessT(k)]) = 1
        /\ pubs[1] = <<>>
        /\ maxAge > 0
        /\ fs[PathB].kind = "file"

\* C9 as stated: no call of prune_older_than_current propagates an error
\* into the watch handler or the client's generator that called it.
C9_SweepNeverRaises ==
    \A t \in Watchers \cup Clients : pc[t] # "crashed"

\* C11: a client calls the sweep on its 20th, 40th, ... iteration and on
\* no other: the sweeps it has called number i div 20, and a step calls one
\* exactly when it resumes the generator into an iteration count that is a
\* multiple of 20; the part of that iteration has been sent by then, and
\* the sweep is given the client's own directory and the path of that
\* iteration's snapshot, whatever the Store holds by then.
C11_SweepEveryTwentieth ==
    /\ [](\A k \in Sessions :
            /\ Len(sweeps[SessT(k)]) = sl[k].i \div prune_every_n
            /\ pc[SessT(k)] \in PrunePcs =>
                   /\ sl[k].i % prune_every_n = 0
                   /\ pf[SessT(k)].cur = sl[k].path
                   /\ pf[SessT(k)].src = sl[k].src
                   /\ out[k] = Part(Frame(sl[k].jpeg)))
    /\ [][\A k \in Sessions :
            /\ (sweeps'[SessT(k)] # sweeps[SessT(k)]) <=>
                   /\ pc[SessT(k)] = "yielded"
                   /\ sl'[k].i = sl[k].i + 1
                   /\ sl'[k].i % prune_every_n = 0
            /\ (sweeps'[SessT(k)] # sweeps[SessT(k)]) =>
                   /\ pc'[SessT(k)] = "prune"
                   /\ sweeps'[SessT(k)] = Append(sweeps[SessT(k)],
                          [src |-> sl[k].src, cur |-> sl[k].path,
                           npub |-> Len(pubs[sl[k].src])])
                   /\ out[k] = Part(Frame(sl[k].jpeg))
                   /\ sl'[k].path = sl[k].path]_vars

\* a client is in its second sweep, on its 40th iteration, with the path
\* of its snapshot although the Store has moved on to another file
C11_Witness ==
    \E k \in Sessions :
        /\ pc[SessT(k)] = "pr_loop"
        /\ sl[k].i = 2 * prune_every_n
        /\ Len(sweeps[SessT(k)]) = 2
        /\ sl[k].path # None
        /\ pf[SessT(k)].cur = sl[k].path
        /\ latest[1].lock = NoThread
        /\ latest[1].path # sl[k].path

\* the directory of source s held a decodable candidate at the start
HadDecodable(s) ==
    \E p \in FolderPaths(s) :
        /\ fs0[p].kind = "file"
        /\ p.suffix \in CandidateSuffixes
        /\ Decodable(fs0[p].raw)

\* C12: when _bootstrap_folder has completed on a directory that holds at
\* least one decodable candidate file (and nothing has written to it
\* meanwhile), the Store holds a published frame, non-empty bytes and
\* seq >= 1, before the watch starts and without any event.
C12_BootstrapPublishes ==
    \A s \in Live :
        (/\ pc[MainT] = "start"
         /\ nWrites = 0
         /\ HadDecodable(s)) =>
            /\ latest[s].jpeg_bytes # <<>>
            /\ latest[s].seq >= 1

\* client k of source s has been sent the frame published last
SentLatest(k, s) ==
    /\ pc[SessT(k)] = "yielded"
    /\ sl[k].src = s
    /\ sl[k].jpeg = LastPublished(s).jpeg
    /\ out[k].payload = Frame(LastPublished(s).jpeg)

\* C13: convergence.  Under fair scheduling a client that is about to
\* take a snapshot is then sent the bytes of the publish completed last
\* before the part leaves: with no later publish that is the latest frame,
\* for every client, whatever its phase, so all the clients come to send
\* the same frame.
C13_Convergence ==
    \A k \in Sessions : \A s \in Live :
        (pc[SessT(k)] = "snap_lock" /\ sl[k].src = s) ~> SentLatest(k, s)

\* two clients at different iterations have both been sent the frame of
\* the second publish, after one of them was sent an earlier frame
C13_Witness ==
    /\ Len(pubs[1]) = 2
    /\ pubs[1][1].jpeg # pubs[1][2].jpeg
    /\ \A k \in Sessions : SentLatest(k, 1)
    /\ \E k, j \in Sessions : sl[k].i = 0 /\ sl[j].i = 1

\* the handler of source s has been called for path p, which holds a
\* complete image that nothing will change, and p was never published
CompleteFileEvent(s, p) ==
    /\ pc[WatchT(s)] = "on_event"
    /\ ev[s] = [path |-> p, is_directory |-> FALSE]
    /\ fs[p].kind = "file" /\ Decodable(fs[p].raw)
    /\ nWrites = MaxWrites
    /\ \A i \in 1..Len(pubs[s]) : pubs[s][i].path # p

PublishedBy(s, p) ==
    \E i \in 1..Len(pubs[s]) :
        /\ pubs[s][i].path = p
        /\ pubs[s][i].by = WatchT(s)
        /\ pubs[s][i].jpeg = DecodeAttempt(fs[p].raw)

\* C14: recovery from a write in progress.  A failed decode attempt never
\* ends the observer thread: the handler retries or returns to wait for
\* the next event, and only a sweep can end it; and under fair scheduling
\* the event delivered for the complete file, after the event for the
\* empty one, leads to a publish of that path.
C14_WriteInProgressRecovery ==
    /\ [][\A s \in Sources :
            /\ (pc[WatchT(s)] = "load" /\ ld'[WatchT(s)].jpeg = JpegNone) =>
                   pc'[WatchT(s)] \in {"load", "idle"}
            /\ (pc'[WatchT(s)] = "crashed") =>
                   pc[WatchT(s)] \in {"pr_iterdir", "crashed"}]_vars
    /\ \A s \in Live : \A p \in ProducerPaths(s) :
           CompleteFileEvent(s, p) ~> PublishedBy(s, p)

\* the handler has given up on the empty a.jpg after its five attempts and
\* is called again for a.jpg, now complete
C14_Witness ==
    /\ CompleteFileEvent(1, PathA)
    /\ fs0[PathA].raw = RawEmpty
    /\ nEvents[1] = 2
    /\ ld[WatchT(1)].path = PathA
    /\ ld[WatchT(1)].attempt = max_attempts
    /\ ld[WatchT(1)].jpeg = JpegNone

\* C15: _shutdown returns only after both observer threads have ended, so
\* once it has returned no handler is running, and no step publishes to a
\* Store, starts a handler's sweep, deletes a file or moves an observer
\* thread.
C15_ShutdownQuiesces ==
    /\ [](pc[MainT] = "down" =>
            \A s \in Sources : pc[WatchT(s)] \in {"stopped", "crashed"})
    /\ [][pc[MainT] = "down" =>
            /\ latest' = latest /\ pubs' = pubs
            /\ unlinked' = unlinked
            /\ \A s \in Sources :
                   /\ sweeps'[WatchT(s)] = sweeps[WatchT(s)]
                   /\ pc'[WatchT(s)] = pc[WatchT(s)]
                   /\ ev'[s] = ev[s]]_vars

\* _shutdown has returned after a handler published, with events the
\* observer could still have delivered
C15_Witness ==
    /\ pc[MainT] = "down"
    /\ \A s \in Sources : pc[WatchT(s)] = "stopped"
    /\ PubCount(1, WatchT(1)) >= 1
    /\ Len(sweeps[WatchT(1)]) >= 1
    /\ nEvents[1] < MaxEvents

\* where a thread is while it holds a Store lock
HoldPcs == {"upd_bytes", "upd_seq", "upd_path", "upd_unlock",
            "snap_bytes", "snap_path", "snap_unlock"}

\* the Store locks thread t holds
LocksOf(t) == { s \in Sources : latest[s].lock = t }

\* the next step of a thread inside a critical section
HolderStep(t) ==
    \/ /\ t \in Loaders
       /\ UpdBytes(t) \/ UpdSeq(t) \/ UpdPath(t) \/ UpdRelease(t)
    \/ \E k \in Sessions :
           /\ t = SessT(k)
           /\ SnapBytes(k) \/ SnapPath(k) \/ SnapRelease(k)

\* C16: a Store lock is held only across the field copy.  Its holder is
\* inside _update_latest or inside the snapshot, on that Store, and never
\* loading a file, sweeping, past the yield of a part, sleeping or waiting
\* for a lock; no thread holds two Store locks; and the holder can always
\* take its next step, so a thread that waits for a lock is never waiting
\* for a thread that waits.
C16_LockOnlyForCopy ==
    /\ \A s \in Sources :
           latest[s].lock # NoThread =>
               /\ latest[s].lock \in Threads
               /\ pc[latest[s].lock] \in HoldPcs
               /\ ThreadSrc(latest[s].lock) = s
               /\ ENABLED HolderStep(latest[s].lock)
    /\ \A t \in Threads :
           /\ Cardinality(LocksOf(t)) <= 1
           /\ pc[t] \notin HoldPcs => LocksOf(t) = {}

\* a client holds the lock of Store 1 while the handler, done loading,
\* and the other client wait for it, after _startup has published to both
\* Stores
C16_Witness ==
    /\ latest[1].lock = SessT(1)
    /\ pc[WatchT(1)] = "upd_lock"
    /\ pc[SessT(2)] = "snap_lock"
    /\ latest[2].seq = 1
    /\ latest[1].seq = 1

\* path p has been published to the Store of source s
WasPublished(s, p) == \E i \in 1..Len(pubs[s]) : pubs[s][i].path = p

\* C17: a sweep that can delete files is anchored to a published frame:
\* whenever a thread is past the guard of prune_older_than_current, its
\* current path has been published to the Store of that directory, and so
\* had the current path of every deletion made.
C17_AnchoredToPublished ==
    /\ \A t \in Threads :
           pc[t] \in {"pr_iterdir", "pr_loop", "pr_unlink"} =>
               WasPublished(pf[t].src, pf[t].cur)
    /\ \A u \in unlinked :
           \E s \in Sources :
               u.path.dir = FRAMES_DIR(s) /\ WasPublished(s, u.cur)

\* thread t takes a step of _try_load_as_jpeg_bytes
LoadStep(t) == pc[t] = "load" /\ ld'[t] # ld[t]

\* C18: the retry loop is bounded.  A load has failed fewer than 5 times
\* while it runs; each of its steps is one attempt, which reads the file
\* and changes neither the filesystem nor a Store; a successful attempt
\* returns the bytes decoded from the file as it is then, with no further
\* attempt; a failed one is counted, and the load returns None exactly at
\* the fifth; and under fair scheduling a load that a handler started
\* returns.
C18_RetryBounded ==
    /\ [](\A t \in Loaders :
            /\ ld[t].attempt <= max_attempts
            /\ pc[t] = "load" =>
                   (ld[t].attempt < max_attempts /\ ld[t].jpeg = JpegNone)
            /\ ld[t].jpeg # JpegNone => ld[t].attempt < max_attempts)
    /\ [][\A t \in Loaders :
            LoadStep(t) =>
                /\ fs' = fs /\ latest' = latest /\ unlinked' = unlinked
                /\ ld'[t].path = ld[t].path
                /\ IF File(ld[t].path).kind = "file"
                        /\ Decodable(File(ld[t].path).raw)
                       THEN /\ ld'[t].jpeg = EncodeJpeg(ToRGB(File(ld[t].path).raw))
                            /\ ld'[t].attempt = ld[t].attempt
                            /\ pc'[t] = "upd_lock"
                       ELSE /\ ld'[t].jpeg = JpegNone
                            /\ ld'[t].attempt = ld[t].attempt + 1
                            /\ (pc'[t] # "load") <=> (ld'[t].attempt = max_attempts)
                            /\ pc'[t] \in {"load", "idle", "boot_prune"}]_vars
    /\ \A s \in Live : (pc[WatchT(s)] = "load") ~> (pc[WatchT(s)] # "load")

\* a load has succeeded at its fifth attempt, after four failures on a
\* file the producer then completed
C18_Witness ==
    /\ pc[WatchT(1)] = "upd_lock"
    /\ ld[WatchT(1)].attempt = max_attempts - 1
    /\ ld[WatchT(1)].jpeg # JpegNone
    /\ fs0[ld[WatchT(1)].path].raw = RawEmpty
    /\ nWrites = 1

\* C19: no sweep deletes the file that is the current path of its Store at
\* the moment of the deletion.
C19_CurrentFileKept ==
    \A u \in unlinked : ~u.published

\* no publish is writing the fields of the Store of source s
OutsidePublish(s) == latest[s].lock \notin Loaders

\* C20: outside a publish a Store is entirely unpublished or entirely
\* published: seq = 0, empty bytes and an absent path go together; a
\* published Store never becomes empty again; and a client that has been
\* sent a real frame is never sent the placeholder afterwards.
C20_AllOrNothing ==
    /\ [](\A s \in Sources :
            OutsidePublish(s) =>
                /\ (latest[s].seq = 0) <=> (latest[s].jpeg_bytes = <<>>)
                /\ (latest[s].seq = 0) <=> (latest[s].path = None))
    /\ [][/\ \A s \in Sources :
               /\ latest[s].jpeg_bytes # <<>> => latest'[s].jpeg_bytes # <<>>
               /\ latest[s].path # None => latest'[s].path # None
               /\ latest[s].seq > 0 => latest'[s].seq > 0
          /\ \A k \in Sessions :
               (out[k] # NoPart /\ out[k].payload # NO_FRAME_JPEG) =>
                   (out'[k] # NoPart /\ out'[k].payload # NO_FRAME_JPEG)]_vars

\* the bootstrap published nothing; a client has been sent the first
\* frame the handler published, on its second iteration, another still has
\* the placeholder it was sent, and the handler is inside its next publish
C20_Witness ==
    \E k, j \in Sessions :
        /\ fs0[PathA].raw = RawEmpty
        /\ Len(pubs[1]) = 1 /\ pubs[1][1].by = WatchT(1)
        /\ pc[SessT(k)] = "yielded" /\ sl[k].i = 1
        /\ out[k].payload = pubs[1][1].jpeg
        /\ out[j].payload = NO_FRAME_JPEG
        /\ latest[1].lock = WatchT(1)
        /\ pc[WatchT(1)] = "upd_seq"

====
